---- MODULE Spec2Model ----
(***************************************************************************)
(* Favicon generator (src/src/FaviconGenerator.tsx): the generation and    *)
(* export pipeline generateFavicons, the React state of                    *)
(* FaviconGeneratorApp and its event handlers, and the browser's registry  *)
(* of object URLs (URL.createObjectURL / URL.revokeObjectURL).             *)
(*                                                                         *)
(* The source file holds two copies of the component.  They differ in      *)
(* convertPNGToICO: the first copy (lines 179-191) catches a failed fetch  *)
(* and returns null, the second copy (lines 819-826) lets it propagate.    *)
(* The variable build says which copy runs.                                *)
(***************************************************************************)
EXTENDS Naturals, Sequences, FiniteSets, TLC

\* ------------------------------------------------------------------ bounds
\* User events per run: clicks on Generate, on a Download button, on the color
\* picker, and edits of the three inputs.
MaxEvents == 4

\* ------------------------------------------------------------ JS values
\* null of `string | null` for an error text, and undefined for a missing
\* property (an Event has no message).
Null == "<null>"
Undefined == "<undefined>"
\* null of `string | null` for an object URL; object URLs are 1, 2, 3, ...
NullUrl == 0
\* No function is under study.
NoProbe == [stage |-> "none"]

\* The inputs a user types: text values (sequences of characters) and colors.
TextInputs == { <<>>, <<"F">>, <<"A", "B", "C">> }
ColorInputs == { "#4F46E5", "#FFFFFF" }
\* The swatches of the color picker popup (a sample of the 28).
Palette == { "#FFFFFF" }

\* The two copies of the component in the source file.
Builds == { "catching", "propagating" }

\* Values the browser throws or rejects with.
DecodeEvent == [message |-> Undefined]
FetchError == [message |-> "Failed to fetch"]
EncoderErrors == { [message |-> "The operation is insecure."], [message |-> ""] }

VARIABLES
    build,            \* which copy of the component runs
    text, color, textColor,       \* useState: the three inputs
    faviconUrls,      \* useState: the caller-visible result record
    loading,          \* useState: a generation is in flight
    showColorPicker,  \* useState: "color", "textColor" or Null
    pc,               \* per handleGenerateFavicon invocation: where it stands
    call,             \* per invocation: the captured inputs, pngUrl, svgUrl, and
                      \* what the environment did to it so far
    generations,      \* generateFavicons calls made so far
    objectUrls,       \* the browser's object URLs: type, creating call, revocations
    lastReturn,       \* the latest settlement of generateFavicons, with what the
                      \* environment did during that call
    effects,          \* what the latest event did to the DOM and to object URLs
                      \* through handleDownload, in order (empty for other events)
    events,           \* user events handled so far
    probe             \* the function under study, with its input and output, in
                      \* the specifications that apply one function; NoProbe in
                      \* Spec

vars == << probe, build, text, color, textColor, faviconUrls, loading, showColorPicker,
           pc, call, generations, objectUrls, lastReturn, effects, events >>

\* -------------------------------------------------------------- helpers
Min(a, b) == IF a < b THEN a ELSE b

\* Mutant of Substring02: substring(0, 3).
Substring03(s) == SubSeq(s, 1, Min(3, Len(s)))

\* String.prototype.substring(0, 2)
Substring02(s) == SubSeq(s, 1, Min(2, Len(s)))

\* The cleared record of handleGenerateFavicon and of useState's initial value.
Cleared == [icoUrl |-> NullUrl, pngUrl |-> NullUrl, svgUrl |-> NullUrl, error |-> Null]

NoCall == [text |-> <<>>, color |-> "", textColor |-> "",
           pngUrl |-> NullUrl, svgUrl |-> NullUrl,
           ctx |-> "ok", decode |-> "pending", encode |-> "pending", fetch |-> "pending"]

\* URL.createObjectURL(blob): a fresh URL, registered with the blob (its type
\* and bytes, and what it was encoded from), and with the call that made it,
\* for which artifact, from which arguments.
createObjectURL(urls, blob, owner, artifact, args) ==
    Append(urls, [type |-> blob.type, bytes |-> blob.bytes,
                  encodedFrom |-> blob.encodedFrom, owner |-> owner,
                  artifact |-> artifact, args |-> args, revoked |-> 0])

\* URL.revokeObjectURL(url)
revokeObjectURL(urls, url) ==
    [urls EXCEPT ![url].revoked = @ + 1]

\* ------------------------------------------------ canvas, encoders, blobs
\* A canvas is its size and the drawing operations applied since it was last
\* reset.  document.createElement("canvas") makes one of 300 by 150.
Blank(width, height) == [width |-> width, height |-> height, ops |-> << >>]

\* ctx.fillStyle = style; ctx.fillRect(x, y, w, h)
fillRect(canvas, style, x, y, w, h) ==
    [canvas EXCEPT !.ops = Append(@, [op |-> "fillRect", fillStyle |-> style,
                                      x |-> x, y |-> y, w |-> w, h |-> h])]

\* ctx.font, ctx.fillStyle, ctx.textAlign, ctx.textBaseline; ctx.fillText(t, x, y)
fillText(canvas, t, font, style, align, baseline, x, y) ==
    [canvas EXCEPT !.ops = Append(@, [op |-> "fillText", text |-> t, font |-> font,
                                      fillStyle |-> style, textAlign |-> align,
                                      textBaseline |-> baseline, x |-> x, y |-> y])]

\* ctx.drawImage(img, dx, dy)
drawImage(canvas, img, dx, dy) ==
    [canvas EXCEPT !.ops = Append(@, [op |-> "drawImage", image |-> img,
                                      x |-> dx, y |-> dy])]

\* canvas.width = w and canvas.height = h: assigning either resets the bitmap.
setWidth(canvas, w) == [canvas EXCEPT !.width = w, !.ops = << >>]
setHeight(canvas, h) == [canvas EXCEPT !.height = h, !.ops = << >>]

\* The pixels of a canvas, as the drawing operations that make them: an image
\* drawn first, at the origin, onto a canvas of its size contributes its own
\* pixels.
Pixels(canvas) ==
    IF /\ canvas.ops # << >> /\ Head(canvas.ops).op = "drawImage"
       /\ Head(canvas.ops).x = 0 /\ Head(canvas.ops).y = 0
       /\ Head(canvas.ops).image.width = canvas.width
       /\ Head(canvas.ops).image.height = canvas.height
    THEN Head(canvas.ops).image.pixels \o Tail(canvas.ops)
    ELSE canvas.ops

\* canvas.toDataURL() and canvas.toDataURL("image/png"): the data URL
\* "data:image/png;base64," + base64(PNG encoding of the pixels).  PNG is
\* lossless: the payload stands for the size and pixels it encodes.  The field
\* canvas remembers which canvas was encoded; it is not part of the URL's text.
toDataURL(canvas) ==
    [mime |-> "image/png",
     payload |-> [format |-> "png", width |-> canvas.width, height |-> canvas.height,
                  pixels |-> Pixels(canvas)],
     canvas |-> canvas]

\* img.src = url, at onload: the decoded image of a PNG data URL.
DecodedImage(dataURL) ==
    [width |-> dataURL.payload.width, height |-> dataURL.payload.height,
     pixels |-> dataURL.payload.pixels]

\* Lines 62-73 on the data URLs above: the Blob of the payload, typed with the
\* URL's media type (dataURLToBlob below is the same function on characters).
BlobOfDataUrl(dataURL) ==
    [type |-> dataURL.mime, bytes |-> dataURL.payload, encodedFrom |-> dataURL.canvas]

\* Lines 30-55 past the getContext check.
createImageDataUrl(t, c, tc) ==
    toDataURL(fillText(fillRect(setHeight(setWidth(Blank(300, 150), 32), 32),
                                c, 0, 0, 32, 32),
                       t, "bold 20px sans-serif", tc, "center", "middle",
                       32 \div 2, 32 \div 2))

\* Lines 98-123: the second canvas with the decoded image drawn on it.
PngCanvas(c) ==
    drawImage(setHeight(setWidth(Blank(300, 150), 32), 32),
              DecodedImage(createImageDataUrl(c.text, c.color, c.textColor)), 0, 0)

\* Lines 126-127: that canvas encoded and turned into the PNG blob.
PngBlob(c) == BlobOfDataUrl(toDataURL(PngCanvas(c)))

\* Lines 131-146: the template literal.  The pieces written in the template are
\* markup ("open", "close", "empty") or character data ("chars"); the pieces
\* interpolated with ${...} are raw: "raw" holds a string's characters, color
\* strings are kept whole.
SvgMarkup(t, c, tc) ==
    << [kind |-> "open", name |-> "svg",
        attrs |-> <<"xmlns=\"http://www.w3.org/2000/svg\"", "viewBox=\"0 0 32 32\"">>],
       [kind |-> "open", name |-> "style", attrs |-> << >>],
       [kind |-> "chars", data |-> "/* Style for the background and text */ .bg { fill: "],
       [kind |-> "raw", data |-> <<c>>],
       [kind |-> "chars", data |-> "; } .text { fill: "],
       [kind |-> "raw", data |-> <<tc>>],
       [kind |-> "chars",
        data |-> "; font-family: sans-serif; font-size: 20px; font-weight: bold; text-anchor: middle; dominant-baseline: middle; }"],
       [kind |-> "close", name |-> "style"],
       [kind |-> "empty", name |-> "rect",
        attrs |-> <<"class=\"bg\"", "width=\"32\"", "height=\"32\"", "rx=\"0\"">>],
       [kind |-> "open", name |-> "text",
        attrs |-> <<"class=\"text\"", "x=\"16\"", "y=\"16\"">>],
       [kind |-> "raw", data |-> t],
       [kind |-> "close", name |-> "text"],
       [kind |-> "close", name |-> "svg"] >>

\* Mutant of SvgContent: the template reads the component's text state instead
\* of the argument.
SvgContentFromState(t, c, tc) == SvgMarkup(text, c, tc)

\* Lines 131-146: svgContent, from the arguments of generateFavicons.
SvgContent(t, c, tc) == SvgMarkup(t, c, tc)

\* Line 147
SvgBlob(c) ==
    [type |-> "image/svg+xml", bytes |-> SvgContent(c.text, c.color, c.textColor),
     encodedFrom |-> "svgContent"]

\* Mutant of IcoCanvas: the redrawn icon uses a smaller font.
IcoCanvasSmallerFont(c) ==
    fillText(fillRect(setHeight(setWidth(PngCanvas(c), 32), 32), c.color, 0, 0, 32, 32),
             c.text, "bold 16px sans-serif", c.textColor, "center", "middle", 16, 16)

\* Lines 150-159: the second canvas is reset (canvas.width = 32), then
\* background and text are drawn on it again from the arguments.
IcoCanvas(c) ==
    fillText(fillRect(setHeight(setWidth(PngCanvas(c), 32), 32), c.color, 0, 0, 32, 32),
             c.text, "bold 20px sans-serif", c.textColor, "center", "middle", 16, 16)

\* Mutant of FetchedBlob: the conversion produces a real icon.
FetchedIcon(dataURL) ==
    [type |-> "image/x-icon", bytes |-> dataURL.payload, encodedFrom |-> dataURL.canvas]

\* Lines 184-185 (and 822-823): fetch(pngDataURL) then response.blob(): the
\* Blob of the data URL's payload, typed with the URL's media type.
FetchedBlob(dataURL) ==
    [type |-> dataURL.mime, bytes |-> dataURL.payload, encodedFrom |-> dataURL.canvas]

\* Lines 162-163: the blob convertPNGToICO resolves with.
IcoBlob(c) == FetchedBlob(toDataURL(IcoCanvas(c)))

\* The arguments of generateFavicons that call record c captured.
Args(c) == [text |-> c.text, color |-> c.color, textColor |-> c.textColor]

\* ------------------------------------------------------ generateFavicons
CallIds == 1 .. MaxEvents

\* Lines 89-96: createImageDataUrl returned "" (its getContext returned null).
NoImageDataUrlResult ==
    [Cleared EXCEPT !.error = "Failed to create image data URL."]

\* Mutant of NoContextResult: both context failures report the same text.
NoContextResultSameText == NoImageDataUrlResult

\* Lines 100-107: the second getContext returned null.
NoContextResult ==
    [Cleared EXCEPT !.error = "Could not get canvas context"]

\* Mutant of ErrorResult: no fallback text.
ErrorResultWithoutFallback(error) ==
    [Cleared EXCEPT !.error = error.message]

\* Mutant of ErrorResult: the catch block keeps the newest handle in the record.
ErrorResultKeepingPng(error) ==
    [Cleared EXCEPT !.pngUrl = Len(objectUrls),
                    !.error = IF error.message \in {Undefined, ""}
                              THEN "An error occurred"
                              ELSE error.message]

\* Lines 168-175: the record the catch block returns.
ErrorResult(error) ==
    [Cleared EXCEPT !.error = IF error.message \in {Undefined, ""}
                              THEN "An error occurred"
                              ELSE error.message]

\* Mutant of SuccessResult: the record leaves svgUrl out.
SuccessResultWithoutSvg(icoUrl, c) ==
    [icoUrl |-> icoUrl, pngUrl |-> c.pngUrl, svgUrl |-> NullUrl, error |-> Null]

\* Mutant of SuccessResult: the icon reuses the PNG handle.
SuccessResultSharingPng(icoUrl, c) ==
    [icoUrl |-> c.pngUrl, pngUrl |-> c.pngUrl, svgUrl |-> c.svgUrl, error |-> Null]

\* Lines 165-167: the record returned at the end of the try block; icoUrl is
\* null when convertPNGToICO returned null.
SuccessResult(icoUrl, c) ==
    [icoUrl |-> icoUrl, pngUrl |-> c.pngUrl, svgUrl |-> c.svgUrl, error |-> Null]

\* How the promise of generateFavicons settles.
Resolved(result) == [settled |-> "resolved", result |-> result, thrown |-> Undefined]
Rejected(error) == [settled |-> "rejected", result |-> Cleared, thrown |-> error.message]

\* Mutant of Caught: no catch block, the promise rejects with what was thrown.
Uncaught(error) == Rejected(error)

\* Lines 87 and 168: whatever is thrown inside the try block is caught, and the
\* promise resolves with the error record.
Caught(error) == Resolved(ErrorResult(error))

\* Mutant of Continue: no finally block, loading is never reset.
ContinueWithoutFinally(i, s, c) ==
    /\ faviconUrls' = IF s.settled = "resolved"
                      THEN s.result
                      ELSE [Cleared EXCEPT !.error = s.thrown]
    /\ loading' = loading
    /\ pc' = [pc EXCEPT ![i] = "done"]
    /\ call' = [call EXCEPT ![i] = NoCall]
    /\ lastReturn' = [call |-> i, settled |-> s.settled, result |-> s.result,
                      text |-> c.text, color |-> c.color, textColor |-> c.textColor,
                      ctx |-> c.ctx, decode |-> c.decode, encode |-> c.encode,
                      fetch |-> c.fetch]

\* Lines 248-259 of handleGenerateFavicon: what follows the await.  The
\* settlement s of generateFavicons is stored, loading is reset (finally), and
\* invocation i is over.
Continue(i, s, c) ==
    /\ faviconUrls' = IF s.settled = "resolved"
                      THEN s.result
                      ELSE [Cleared EXCEPT !.error = s.thrown]
    /\ loading' = FALSE
    /\ pc' = [pc EXCEPT ![i] = "done"]
    /\ call' = [call EXCEPT ![i] = NoCall]
    /\ lastReturn' = [call |-> i, settled |-> s.settled, result |-> s.result,
                      text |-> c.text, color |-> c.color, textColor |-> c.textColor,
                      ctx |-> c.ctx, decode |-> c.decode, encode |-> c.encode,
                      fetch |-> c.fetch]

\* Mutant of GenerateEnabled: the button is never disabled.
GenerateAlwaysEnabled == TRUE

\* Line 419: the Generate button is disabled while loading.
GenerateEnabled == loading = FALSE

\* Lines 244-248 and 82-121: a click on Generate (the button is disabled while
\* loading).  handleGenerateFavicon sets loading, clears the result and calls
\* generateFavicons with the current inputs; generateFavicons runs up to its
\* first await.  When a getContext returns null the call returns at once and the
\* handler continues in a microtask, before any other event.
handleGenerateFavicon ==
    /\ GenerateEnabled
    /\ events < MaxEvents
    /\ events' = events + 1
    /\ generations' = generations + 1
    /\ LET i == generations + 1
           c == [NoCall EXCEPT !.text = text, !.color = color, !.textColor = textColor]
       IN \E ctx \in {"ok", "first", "second"} :
            CASE ctx = "first" ->
                   Continue(i, Resolved(NoImageDataUrlResult), [c EXCEPT !.ctx = ctx])
              [] ctx = "second" ->
                   Continue(i, Resolved(NoContextResult), [c EXCEPT !.ctx = ctx])
              [] OTHER ->
                   /\ loading' = TRUE
                   /\ faviconUrls' = Cleared
                   /\ pc' = [pc EXCEPT ![i] = "decode"]
                   /\ call' = [call EXCEPT ![i] = c]
                   /\ UNCHANGED lastReturn
    /\ effects' = << >>
    /\ UNCHANGED << probe, build, text, color, textColor, showColorPicker, objectUrls >>

\* Line 116: the decode fires onerror; the await throws the event.
DecodeError(i) ==
    /\ pc[i] = "decode"
    /\ Continue(i, Caught(DecodeEvent), [call[i] EXCEPT !.decode = "onerror"])
    /\ effects' = << >>
    /\ UNCHANGED << probe, build, text, color, textColor, showColorPicker, generations,
                    objectUrls, events >>

\* Lines 115 and 123-163: the decode fires onload; the PNG and the SVG handle are
\* created and the ICO conversion starts its fetch.  An encoder may throw: before
\* the PNG handle exists ("png"), between the two handles ("svg"), or after both
\* ("ico").
DecodeLoaded(i) ==
    /\ pc[i] = "decode"
    /\ LET c == [call[i] EXCEPT !.decode = "onload"]
           withPng == createObjectURL(objectUrls, PngBlob(c), i, "png", Args(c))
           withSvg == createObjectURL(withPng, SvgBlob(c), i, "svg", Args(c))
       IN \/ /\ objectUrls' = withSvg
             /\ pc' = [pc EXCEPT ![i] = "fetch"]
             /\ call' = [call EXCEPT ![i] = [c EXCEPT !.encode = "ok",
                                                      !.pngUrl = Len(withPng),
                                                      !.svgUrl = Len(withSvg)]]
             /\ UNCHANGED << faviconUrls, loading, lastReturn >>
          \/ \E fault \in {"png", "svg", "ico"}, error \in EncoderErrors :
               /\ objectUrls' = CASE fault = "png" -> objectUrls
                                  [] fault = "svg" -> withPng
                                  [] fault = "ico" -> withSvg
               /\ Continue(i, Caught(error), [c EXCEPT !.encode = fault])
    /\ effects' = << >>
    /\ UNCHANGED << probe, build, text, color, textColor, showColorPicker, generations, events >>

\* Lines 179-191 and 819-826, convertPNGToICO when fetch or response.blob()
\* rejects: the first copy catches and returns null, so that generateFavicons
\* returns a record with icoUrl null (line 165); the second copy rethrows into
\* the catch block of generateFavicons.
ConversionFailed(i, c) ==
    IF build = "catching"
    THEN Continue(i, Resolved(SuccessResult(NullUrl, c)), c)
    ELSE Continue(i, Caught(FetchError), c)

\* Line 184: the fetch of the data URL settles.
FetchSettles(i) ==
    /\ pc[i] = "fetch"
    /\ \/ /\ pc' = [pc EXCEPT ![i] = "blob"]
          /\ call' = [call EXCEPT ![i].fetch = "ok"]
          /\ UNCHANGED << faviconUrls, loading, lastReturn >>
       \/ ConversionFailed(i, [call[i] EXCEPT !.fetch = "fetchRejected"])
    /\ effects' = << >>
    /\ UNCHANGED << probe, build, text, color, textColor, showColorPicker, generations,
                    objectUrls, events >>

\* Lines 185 and 165-167: response.blob() settles; on success the ICO handle is
\* created and the full record is returned.
BlobSettles(i) ==
    /\ pc[i] = "blob"
    /\ \/ /\ objectUrls' = createObjectURL(objectUrls, IcoBlob(call[i]), i, "ico",
                                         Args(call[i]))
          /\ Continue(i, Resolved(SuccessResult(Len(objectUrls) + 1, call[i])), call[i])
       \/ /\ UNCHANGED objectUrls
          /\ ConversionFailed(i, [call[i] EXCEPT !.fetch = "blobRejected"])
    /\ effects' = << >>
    /\ UNCHANGED << probe, build, text, color, textColor, showColorPicker, generations, events >>

\* ------------------------------------------------------- event handlers
\* Lines 262-264
handleTextChange(value) ==
    /\ text' = Substring02(value)
    /\ effects' = << >>
    /\ UNCHANGED << probe, build, color, textColor, faviconUrls, loading, showColorPicker,
                    pc, call, generations, objectUrls, lastReturn >>
    /\ events < MaxEvents
    /\ events' = events + 1

\* Lines 266-268
handleColorChange(value) ==
    /\ color' = value
    /\ effects' = << >>
    /\ UNCHANGED << probe, build, text, textColor, faviconUrls, loading, showColorPicker,
                    pc, call, generations, objectUrls, lastReturn >>
    /\ events < MaxEvents
    /\ events' = events + 1

\* Lines 270-274
handleTextColorChange(value) ==
    /\ textColor' = value
    /\ effects' = << >>
    /\ UNCHANGED << probe, build, text, color, faviconUrls, loading, showColorPicker,
                    pc, call, generations, objectUrls, lastReturn >>
    /\ events < MaxEvents
    /\ events' = events + 1

\* Lines 287-289
toggleColorPicker(type) ==
    /\ showColorPicker' = IF showColorPicker = type THEN Null ELSE type
    /\ effects' = << >>
    /\ UNCHANGED << probe, build, text, color, textColor, faviconUrls, loading,
                    pc, call, generations, objectUrls, lastReturn >>
    /\ events < MaxEvents
    /\ events' = events + 1

\* Lines 291-293; the Cancel button is part of the popup (line 528).
closeColorPicker ==
    /\ showColorPicker # Null
    /\ showColorPicker' = Null
    /\ effects' = << >>
    /\ UNCHANGED << probe, build, text, color, textColor, faviconUrls, loading,
                    pc, call, generations, objectUrls, lastReturn >>
    /\ events < MaxEvents
    /\ events' = events + 1

\* Mutant of ColorSelect: the picker stays open after a choice.
ColorSelectKeepingPickerOpen(newColor) ==
    /\ color' = IF showColorPicker = "color" THEN newColor ELSE color
    /\ textColor' = IF showColorPicker = "textColor" THEN newColor ELSE textColor
    /\ showColorPicker' = showColorPicker
    /\ effects' = << >>
    /\ UNCHANGED << probe, build, text, faviconUrls, loading,
                    pc, call, generations, objectUrls, lastReturn >>
    /\ events < MaxEvents
    /\ events' = events + 1

\* Lines 295-308: the handler, whatever the picker's state.
ColorSelect(newColor) ==
    /\ color' = IF showColorPicker = "color" THEN newColor ELSE color
    /\ textColor' = IF showColorPicker = "textColor" THEN newColor ELSE textColor
    /\ showColorPicker' = Null
    /\ effects' = << >>
    /\ UNCHANGED << probe, build, text, faviconUrls, loading,
                    pc, call, generations, objectUrls, lastReturn >>
    /\ events < MaxEvents
    /\ events' = events + 1

\* A click on a swatch; the swatches are part of the popup (line 528), which is
\* rendered while the picker is open.
handleColorSelect(newColor) ==
    /\ showColorPicker # Null
    /\ ColorSelect(newColor)

\* Mutant of DownloadEffects: the url is revoked before the link is clicked.
DownloadEffectsRevokingFirst(url, filename) ==
    << [op |-> "appendChild", url |-> url, filename |-> filename],
       [op |-> "revokeObjectURL", url |-> url, filename |-> filename],
       [op |-> "click", url |-> url, filename |-> filename],
       [op |-> "removeChild", url |-> url, filename |-> filename] >>

\* Lines 278-284: what handleDownload does with a non-null url, in order.
DownloadEffects(url, filename) ==
    << [op |-> "appendChild", url |-> url, filename |-> filename],
       [op |-> "click", url |-> url, filename |-> filename],
       [op |-> "removeChild", url |-> url, filename |-> filename],
       [op |-> "revokeObjectURL", url |-> url, filename |-> filename] >>

\* Lines 276-285
handleDownload(url, filename) ==
    IF url = NullUrl
    THEN UNCHANGED objectUrls /\ effects' = << >>
    ELSE /\ effects' = DownloadEffects(url, filename)
         /\ objectUrls' = revokeObjectURL(objectUrls, url)

\* Lines 463, 487, 512: the three Download buttons.
DownloadButtons ==
    { [field |-> "icoUrl", filename |-> "favicon.ico"],
      [field |-> "pngUrl", filename |-> "favicon.png"],
      [field |-> "svgUrl", filename |-> "favicon.svg"] }

\* Lines 435-451, 475, 499: the card of an artifact, with its Download button, is
\* rendered when the record has no error and that url is set.
CardShown(field) ==
    /\ faviconUrls.error \in {Null, ""}
    /\ faviconUrls[field] # NullUrl

\* A click on a rendered Download button.
DownloadClick(b) ==
    /\ CardShown(b.field)
    /\ events < MaxEvents
    /\ events' = events + 1
    /\ handleDownload(faviconUrls[b.field], b.filename)
    /\ UNCHANGED << probe, build, text, color, textColor, faviconUrls, loading, showColorPicker,
                    pc, call, generations, lastReturn >>

\* ------------------------------------------------------- specification
\* Lines 210-222: the initial React state; nothing generated yet.
Mounted ==
    /\ build \in Builds
    /\ text = <<"F">>
    /\ color = "#4F46E5"
    /\ textColor = "#FFFFFF"
    /\ faviconUrls = Cleared
    /\ loading = FALSE
    /\ showColorPicker = Null
    /\ pc = [i \in CallIds |-> "idle"]
    /\ call = [i \in CallIds |-> NoCall]
    /\ generations = 0
    /\ objectUrls = << >>
    /\ lastReturn = [call |-> 0, settled |-> "resolved", result |-> Cleared,
                     text |-> <<>>, color |-> "", textColor |-> "",
                     ctx |-> "ok", decode |-> "pending", encode |-> "pending",
                     fetch |-> "pending"]
    /\ effects = << >>
    /\ events = 0

Init == Mounted /\ probe = NoProbe

Next ==
    \/ handleGenerateFavicon
    \/ \E i \in CallIds : DecodeError(i)
    \/ \E i \in CallIds : DecodeLoaded(i)
    \/ \E i \in CallIds : FetchSettles(i)
    \/ \E i \in CallIds : BlobSettles(i)
    \/ \E b \in DownloadButtons : DownloadClick(b)
    \/ \E value \in TextInputs : handleTextChange(value)
    \/ \E value \in ColorInputs : handleColorChange(value)
    \/ \E value \in ColorInputs : handleTextColorChange(value)
    \/ \E type \in {"color", "textColor"} : toggleColorPicker(type)
    \/ closeColorPicker
    \/ \E newColor \in Palette : handleColorSelect(newColor)

\* The steps the browser takes for a call in flight: the decode fires onload or
\* onerror, the fetch settles, the blob read settles.
Settles ==
    \E i \in CallIds :
        DecodeError(i) \/ DecodeLoaded(i) \/ FetchSettles(i) \/ BlobSettles(i)

Spec == Init /\ [][Next]_vars

\* Every started decode eventually fires onload or onerror, and every started
\* fetch (and blob read) eventually settles.
FairSpec == Spec /\ WF_vars(Settles)

\* ----------------------------------------------------------- properties
Returned == lastReturn.call > 0

AllNull(r) == r.icoUrl = NullUrl /\ r.pngUrl = NullUrl /\ r.svgUrl = NullUrl
AllSet(r) == r.icoUrl # NullUrl /\ r.pngUrl # NullUrl /\ r.svgUrl # NullUrl

\* The object URLs that call i created.
CreatedBy(i) == { h \in DOMAIN objectUrls : objectUrls[h].owner = i }

\* The conversion's fetch or response.blob() rejected during the returned call.
FetchFailed(r) == r.fetch \in {"fetchRejected", "blobRejected"}

\* Some step of the returned call failed.
StepFailed(r) ==
    \/ r.ctx # "ok"
    \/ r.decode = "onerror"
    \/ r.encode \in {"png", "svg", "ico"}
    \/ FetchFailed(r)

\* Invocation i returns in this step.
ReturnsNow(i) == pc[i] # "done" /\ pc'[i] = "done"

\* C1 as claimed: every record generateFavicons returns has either an error and
\* no handle, or no error and all three handles.
C1_AllOrNothing ==
    Returned =>
        \/ lastReturn.result.error # Null /\ AllNull(lastReturn.result)
        \/ lastReturn.result.error = Null /\ AllSet(lastReturn.result)

\* C1 amended: every record generateFavicons returns has either an error and no
\* handle, or no error and all three handles, or - when the fetch or blob step of
\* the catching copy of convertPNGToICO failed - no error, the PNG and the SVG
\* handle, and icoUrl null.
C1_AllOrNothingExceptIco ==
    Returned =>
        \/ lastReturn.result.error # Null /\ AllNull(lastReturn.result)
        \/ lastReturn.result.error = Null /\ AllSet(lastReturn.result)
        \/ /\ build = "catching" /\ FetchFailed(lastReturn)
           /\ lastReturn.result.error = Null
           /\ lastReturn.result.icoUrl = NullUrl
           /\ lastReturn.result.pngUrl # NullUrl
           /\ lastReturn.result.svgUrl # NullUrl

C1_Witness ==
    /\ Returned /\ build = "catching" /\ lastReturn.fetch = "fetchRejected"
    /\ lastReturn.result.icoUrl = NullUrl /\ lastReturn.result.pngUrl # NullUrl

\* C2: when both contexts were available, the decode fired onload and the
\* conversion's fetch succeeded, the returned record has three non-null,
\* pairwise distinct handles and no error, whatever the text (length 0 to 2).
C2_SuccessPath ==
    ( /\ Returned /\ lastReturn.settled = "resolved"
      /\ lastReturn.ctx = "ok" /\ lastReturn.decode = "onload"
      /\ lastReturn.fetch = "ok" ) =>
        /\ Len(lastReturn.text) <= 2
        /\ AllSet(lastReturn.result)
        /\ lastReturn.result.icoUrl # lastReturn.result.pngUrl
        /\ lastReturn.result.icoUrl # lastReturn.result.svgUrl
        /\ lastReturn.result.pngUrl # lastReturn.result.svgUrl
        /\ lastReturn.result.error = Null

C2_Witness ==
    /\ Returned /\ lastReturn.ctx = "ok" /\ lastReturn.decode = "onload"
    /\ lastReturn.fetch = "ok" /\ Len(lastReturn.text) = 2
    /\ AllSet(lastReturn.result)

\* C3 as claimed: when any getContext of a generation returned null, the call
\* returned the record with error "Failed to create image data URL." and created
\* no handle.
C3_NoContext ==
    (Returned /\ lastReturn.ctx # "ok") =>
        /\ lastReturn.result = [icoUrl |-> NullUrl, pngUrl |-> NullUrl, svgUrl |-> NullUrl,
                                error |-> "Failed to create image data URL."]
        /\ CreatedBy(lastReturn.call) = {}

\* C3 amended: when the getContext of createImageDataUrl returned null the error
\* is "Failed to create image data URL."; when the getContext of generateFavicons
\* itself returned null the error is "Could not get canvas context"; in both
\* cases the three handles are null and the call created no handle.
C3_NoContextByCall ==
    Returned =>
        /\ lastReturn.ctx = "first" =>
             /\ lastReturn.result = [icoUrl |-> NullUrl, pngUrl |-> NullUrl,
                                     svgUrl |-> NullUrl,
                                     error |-> "Failed to create image data URL."]
             /\ CreatedBy(lastReturn.call) = {}
        /\ lastReturn.ctx = "second" =>
             /\ lastReturn.result = [icoUrl |-> NullUrl, pngUrl |-> NullUrl,
                                     svgUrl |-> NullUrl,
                                     error |-> "Could not get canvas context"]
             /\ CreatedBy(lastReturn.call) = {}

C3_Witness ==
    /\ Returned /\ lastReturn.ctx = "second"
    /\ lastReturn.result.error = "Could not get canvas context"

\* An error text that is a non-empty string.
NonEmptyText(e) == e \notin {Null, Undefined, ""}

\* C4 as claimed: whatever step fails, generateFavicons resolves with a record
\* whose error is a non-empty string, the handler stores it and ends (loading
\* false), and no further generation is started by that invocation.
C4_NoFailureEscapes ==
    [][ \A i \in CallIds :
          (ReturnsNow(i) /\ StepFailed(lastReturn')) =>
              /\ lastReturn'.call = i
              /\ lastReturn'.settled = "resolved"
              /\ NonEmptyText(lastReturn'.result.error)
              /\ faviconUrls' = lastReturn'.result
              /\ loading' = FALSE
              /\ \A j \in CallIds \ {i} : pc'[j] = pc[j] ]_vars

\* C4 amended: whatever step fails, generateFavicons resolves (never rejects),
\* the handler stores the record and ends with loading false, and no further
\* generation is started by that invocation; the record's error is a non-empty
\* string, except when the fetch or blob step of the catching copy of
\* convertPNGToICO failed: then error and icoUrl are both null.
C4_NoFailureEscapesExceptIco ==
    [][ \A i \in CallIds :
          (ReturnsNow(i) /\ StepFailed(lastReturn')) =>
              /\ lastReturn'.call = i
              /\ lastReturn'.settled = "resolved"
              /\ IF build = "catching" /\ FetchFailed(lastReturn')
                 THEN lastReturn'.result.error = Null /\ lastReturn'.result.icoUrl = NullUrl
                 ELSE NonEmptyText(lastReturn'.result.error)
              /\ faviconUrls' = lastReturn'.result
              /\ loading' = FALSE
              /\ \A j \in CallIds \ {i} : pc'[j] = pc[j] ]_vars

C4_Witness ==
    /\ Returned /\ build = "propagating" /\ lastReturn.fetch = "blobRejected"
    /\ lastReturn.result.error = "Failed to fetch"
    /\ faviconUrls = lastReturn.result /\ loading = FALSE

\* The object URLs that have not been revoked.
LiveUrls == { h \in DOMAIN objectUrls : objectUrls[h].revoked = 0 }

\* C5: URL.revokeObjectURL is invoked at most once on each handle that
\* generateFavicons created.
C5_ReleasedAtMostOnce ==
    \A h \in DOMAIN objectUrls : objectUrls[h].revoked <= 1

\* C6: whenever the caller-visible result is overwritten, every handle of the
\* overwritten record has been released, and at most 3 created handles are
\* unreleased at any time.
C6_ReleaseBeforeDiscard ==
    /\ [][ \A f \in {"icoUrl", "pngUrl", "svgUrl"} :
             (faviconUrls'[f] # faviconUrls[f] /\ faviconUrls[f] # NullUrl) =>
                 objectUrls[faviconUrls[f]].revoked >= 1 ]_vars
    /\ [](Cardinality(LiveUrls) <= 3)

\* C7: whenever generateFavicons returns a record with an error, every object
\* URL created during that call has been released.
C7_DiscardedOnFailure ==
    (Returned /\ lastReturn.result.error # Null) =>
        \A h \in CreatedBy(lastReturn.call) : objectUrls[h].revoked >= 1

\* The places of the save (the click on the temporary link) and of the release
\* among the effects of a download.
Saves == { k \in DOMAIN effects : effects[k].op = "click" }
Releases == { k \in DOMAIN effects : effects[k].op = "revokeObjectURL" }

\* C8: a download of a non-null handle makes exactly one save carrying the
\* handle and the filename, then one release of the same handle; the save comes
\* first and only the removal of the temporary link lies between them; the
\* filename is favicon.ico, favicon.png or favicon.svg according to the handle.
C8_DownloadOrdering ==
    effects # << >> =>
        \E s \in Saves, r \in Releases :
            /\ Saves = {s} /\ Releases = {r}
            /\ s < r
            /\ effects[s].url # NullUrl
            /\ effects[r].url = effects[s].url
            /\ \A k \in (s + 1) .. (r - 1) : effects[k].op = "removeChild"
            /\ \/ effects[s].url = faviconUrls.icoUrl /\ effects[s].filename = "favicon.ico"
               \/ effects[s].url = faviconUrls.pngUrl /\ effects[s].filename = "favicon.png"
               \/ effects[s].url = faviconUrls.svgUrl /\ effects[s].filename = "favicon.svg"
            /\ objectUrls[effects[r].url].revoked >= 1

C8_Witness ==
    /\ effects # << >>
    /\ \E s \in Saves : /\ effects[s].url = faviconUrls.icoUrl
                        /\ effects[s].filename = "favicon.ico"
                        /\ objectUrls[effects[s].url].revoked = 1

\* Invocation i of handleGenerateFavicon is in flight.
InFlight(i) == pc[i] \in {"decode", "fetch", "blob"}

\* C9 as claimed: while an invocation is in flight handleGenerateFavicon can be
\* invoked again, and the result of whichever invocation completes is what
\* faviconUrls holds afterwards.
C9_UnguardedReentry ==
    /\ []( ((\E i \in CallIds : InFlight(i)) /\ events < MaxEvents) =>
              ENABLED handleGenerateFavicon )
    /\ [][ \A i \in CallIds : ReturnsNow(i) => faviconUrls' = lastReturn'.result ]_vars

\* C9 amended: while an invocation is in flight the Generate button is disabled
\* (loading is true), so handleGenerateFavicon is not invoked again and at most
\* one invocation is in flight; the invocation that completes is the one started
\* last, and faviconUrls afterwards holds its result.
C9_SerializedByButton ==
    /\ []( /\ Cardinality({ i \in CallIds : InFlight(i) }) <= 1
           /\ (\E i \in CallIds : InFlight(i)) => ~ ENABLED handleGenerateFavicon )
    /\ [][ \A i \in CallIds :
             ReturnsNow(i) => /\ i = generations'
                              /\ lastReturn'.call = i
                              /\ faviconUrls' = lastReturn'.result ]_vars

C9_Witness ==
    /\ pc[1] = "done" /\ InFlight(2) /\ loading = TRUE
    /\ events < MaxEvents

\* The shapes of the record a finished invocation leaves in faviconUrls.  An
\* invocation leaves the states decode, fetch and blob only by returning (its pc
\* becomes "done"), so "whenever some invocation is in flight, eventually none
\* is" says that each invocation in flight eventually returns.
ThreeHandles(r) == r.error = Null /\ AllSet(r)
HasError(r) == r.error # Null
IcoMissing(r) ==
    r.error = Null /\ r.icoUrl = NullUrl /\ r.pngUrl # NullUrl /\ r.svgUrl # NullUrl

\* C10 as claimed: under FairSpec every invocation in flight eventually
\* finishes, and it finishes with loading false and faviconUrls holding the
\* three handles or an error.
C10_Completion ==
    /\ (\E i \in CallIds : InFlight(i)) ~> (\A i \in CallIds : ~ InFlight(i))
    /\ [][ \A i \in CallIds :
             ReturnsNow(i) => /\ loading' = FALSE
                              /\ ThreeHandles(faviconUrls') \/ HasError(faviconUrls') ]_vars

\* C10 amended: under FairSpec every invocation in flight eventually finishes,
\* and it finishes with loading false and faviconUrls holding the three handles,
\* or an error, or - after a failed fetch or blob read in the catching copy of
\* convertPNGToICO - the PNG and SVG handles with icoUrl null and error null.
C10_CompletionExceptIco ==
    /\ (\E i \in CallIds : InFlight(i)) ~> (\A i \in CallIds : ~ InFlight(i))
    /\ [][ \A i \in CallIds :
             ReturnsNow(i) =>
                 /\ loading' = FALSE
                 /\ \/ ThreeHandles(faviconUrls')
                    \/ HasError(faviconUrls')
                    \/ /\ IcoMissing(faviconUrls')
                       /\ build = "catching" /\ FetchFailed(lastReturn') ]_vars

C10_Witness ==
    /\ pc[1] = "done" /\ loading = FALSE /\ build = "catching"
    /\ lastReturn.fetch = "blobRejected" /\ IcoMissing(faviconUrls)

\* C11 as claimed: while the decode of an invocation is pending, the invocation
\* has returned nothing, and a later generation request can still be issued.
C11_StallBlocksOnlyOne ==
    \A i \in CallIds :
        pc[i] = "decode" =>
            /\ lastReturn.call # i
            /\ events < MaxEvents => ENABLED handleGenerateFavicon

\* C11 amended: while the decode of an invocation is pending, the invocation has
\* returned nothing, loading is true and faviconUrls is cleared, so the Generate
\* button is disabled and no later generation request is issued; the invocation
\* leaves that state only by its decode firing onload or onerror.
C11_StallBlocksGenerate ==
    /\ [](\A i \in CallIds :
            pc[i] = "decode" =>
                /\ lastReturn.call # i
                /\ loading = TRUE
                /\ faviconUrls = Cleared
                /\ ~ ENABLED handleGenerateFavicon
                /\ generations = i
                /\ \A j \in CallIds \ {i} : ~ InFlight(j))
    /\ [][ \A i \in CallIds :
             (pc[i] = "decode" /\ pc'[i] # "decode") =>
                 \/ call'[i].decode = "onload"
                 \/ /\ lastReturn'.call = i
                    /\ lastReturn'.decode \in {"onload", "onerror"} ]_vars

C11_Witness ==
    /\ pc[2] = "decode" /\ pc[1] = "done"
    /\ loading = TRUE /\ events < MaxEvents
    /\ text # call[2].text

\* The text values the first two characters of an input can make.
IsPrefixOfLength2(t, value) ==
    /\ Len(t) = (IF Len(value) < 2 THEN Len(value) ELSE 2)
    /\ \A k \in 1 .. Len(t) : t[k] = value[k]

\* C12: the text state has length at most 2, it changes only in
\* handleTextChange, where it becomes the first two characters of the input,
\* whatever the input's length; and the text every generateFavicons call
\* received, in flight or returned, has length at most 2, as has the text in
\* every SVG document made.
C12_TextClamp ==
    /\ [](/\ Len(text) <= 2
          /\ \A i \in CallIds : Len(call[i].text) <= 2
          /\ Len(lastReturn.text) <= 2
          /\ \A h \in DOMAIN objectUrls :
                /\ Len(objectUrls[h].args.text) <= 2
                /\ objectUrls[h].artifact = "svg" =>
                      \A k \in DOMAIN objectUrls[h].bytes :
                          objectUrls[h].bytes[k].kind = "raw" =>
                              Len(objectUrls[h].bytes[k].data) <= 2)
    /\ [][ /\ \A value \in TextInputs :
                handleTextChange(value) => IsPrefixOfLength2(text', value)
           /\ text' # text => \E value \in TextInputs : handleTextChange(value)
           /\ \A i \in CallIds :
                (pc[i] = "idle" /\ pc'[i] # "idle") =>
                    (IF pc'[i] = "done" THEN lastReturn'.text ELSE call'[i].text) = text
         ]_vars

C12_Witness ==
    /\ text = <<"A", "B">>
    /\ \E i \in CallIds : InFlight(i) /\ call[i].text = <<"A", "B">>

\* The blob behind an object URL.
BlobOf(h) == [type |-> objectUrls[h].type, bytes |-> objectUrls[h].bytes]

\* The object URLs made for the given artifact by calls with the given arguments.
HandlesOf(artifact, args) ==
    { h \in DOMAIN objectUrls :
        objectUrls[h].artifact = artifact /\ objectUrls[h].args = args }

DrawnBy(h) == { objectUrls[h].encodedFrom.ops[k].op :
                    k \in DOMAIN objectUrls[h].encodedFrom.ops }

\* C14 as claimed: in a returned record with a PNG and an ICO handle, the bytes
\* of the two blobs are identical and both were encoded from the same surface,
\* the one the decoded image was drawn on.
C14_IconFromRasterSurface ==
    (Returned /\ ThreeHandles(lastReturn.result)) =>
        LET ico == lastReturn.result.icoUrl
            png == lastReturn.result.pngUrl
        IN /\ objectUrls[ico].bytes = objectUrls[png].bytes
           /\ objectUrls[ico].encodedFrom = objectUrls[png].encodedFrom
           /\ DrawnBy(ico) = {"drawImage"}

\* C14 amended: in a returned record with a PNG and an ICO handle, the bytes of
\* the two blobs are identical, but the surfaces differ: the PNG is encoded from
\* the canvas the decoded image was drawn on, the ICO from that canvas after it
\* was reset and background and text were drawn on it again from the call's
\* arguments.
C14_IconFromSecondRendering ==
    (Returned /\ ThreeHandles(lastReturn.result)) =>
        LET ico == lastReturn.result.icoUrl
            png == lastReturn.result.pngUrl
        IN /\ objectUrls[ico].bytes = objectUrls[png].bytes
           /\ DrawnBy(png) = {"drawImage"}
           /\ DrawnBy(ico) = {"fillRect", "fillText"}
           /\ \A k \in DOMAIN objectUrls[ico].encodedFrom.ops :
                LET o == objectUrls[ico].encodedFrom.ops[k]
                IN /\ o.fillStyle \in {lastReturn.color, lastReturn.textColor}
                   /\ o.op = "fillText" => o.text = lastReturn.text

C14_Witness ==
    /\ Returned /\ ThreeHandles(lastReturn.result)
    /\ objectUrls[lastReturn.result.icoUrl].bytes = objectUrls[lastReturn.result.pngUrl].bytes
    /\ objectUrls[lastReturn.result.icoUrl].encodedFrom
         # objectUrls[lastReturn.result.pngUrl].encodedFrom
    /\ Len(lastReturn.text) = 2

\* C15 as claimed: in a returned record with three handles the PNG blob has type
\* image/png, the SVG blob image/svg+xml, and the ICO blob a type that is not
\* image/png.
C15_IconTagDiffers ==
    (Returned /\ ThreeHandles(lastReturn.result)) =>
        /\ objectUrls[lastReturn.result.pngUrl].type = "image/png"
        /\ objectUrls[lastReturn.result.svgUrl].type = "image/svg+xml"
        /\ objectUrls[lastReturn.result.icoUrl].type # "image/png"

\* C15 amended: in a returned record with three handles the PNG blob has type
\* image/png, the SVG blob image/svg+xml, and the ICO blob has type image/png
\* too, the media type of the data URL it was fetched from; every ICO handle,
\* returned or not, has that type.
C15_IconTagIsPng ==
    /\ (Returned /\ ThreeHandles(lastReturn.result)) =>
          /\ objectUrls[lastReturn.result.pngUrl].type = "image/png"
          /\ objectUrls[lastReturn.result.svgUrl].type = "image/svg+xml"
          /\ objectUrls[lastReturn.result.icoUrl].type = "image/png"
          /\ objectUrls[lastReturn.result.pngUrl].artifact = "png"
          /\ objectUrls[lastReturn.result.svgUrl].artifact = "svg"
          /\ objectUrls[lastReturn.result.icoUrl].artifact = "ico"
    /\ \A h \in DOMAIN objectUrls :
          objectUrls[h].type = (IF objectUrls[h].artifact = "svg"
                                THEN "image/svg+xml" ELSE "image/png")

C15_Witness ==
    /\ Returned /\ ThreeHandles(lastReturn.result)
    /\ objectUrls[lastReturn.result.icoUrl].artifact = "ico"
    /\ objectUrls[lastReturn.result.icoUrl].type
         = objectUrls[lastReturn.result.pngUrl].type
    /\ build = "propagating"

\* ------------------------------------------- the SVG document on its own
\* The state of the component, which the specifications of one function leave
\* alone.
componentVars == << build, text, color, textColor, faviconUrls, loading,
                    showColorPicker, pc, call, generations, objectUrls, lastReturn,
                    effects, events >>

\* Line 263: the text that reaches generateFavicons has at most 2 characters.
ClampLength == 2

\* The characters of a text, among them the markup characters, and the texts of
\* length 0 to ClampLength.
SvgAlphabet == { "F", "<", "&" }
SvgTexts == UNION { [1 .. n -> SvgAlphabet] : n \in 0 .. ClampLength }
\* The color fields are free text (lines 355-361, 388-394).
SvgColors == ColorInputs \cup { "<" }

SvgInit ==
    /\ Mounted
    /\ probe \in [stage : {"input"}, text : SvgTexts, color : SvgColors,
                  textColor : SvgColors]

\* Lines 131-146 applied to the input.
SvgBuild ==
    /\ probe.stage = "input"
    /\ probe' = [stage |-> "output", text |-> probe.text, color |-> probe.color,
                 textColor |-> probe.textColor,
                 svg |-> SvgContent(probe.text, probe.color, probe.textColor)]
    /\ UNCHANGED componentVars

SvgSpec == SvgInit /\ [][SvgBuild]_vars

\* An XML parser on the pieces of a document, from piece k on, with the names
\* of the open elements on a stack.  A raw piece is character data as far as it
\* has no "<" and no "&": with at most ClampLength characters a "<" cannot be a
\* complete tag and a "&" cannot be a complete reference.
RECURSIVE WellFormedFrom(_, _, _)
WellFormedFrom(doc, k, stack) ==
    IF k > Len(doc)
    THEN stack = << >>
    ELSE LET piece == doc[k]
         IN CASE piece.kind = "open" ->
                   /\ (stack = << >> => k = 1)
                   /\ WellFormedFrom(doc, k + 1, <<piece.name>> \o stack)
              [] piece.kind = "close" ->
                   /\ stack # << >>
                   /\ Head(stack) = piece.name
                   /\ WellFormedFrom(doc, k + 1, Tail(stack))
              [] piece.kind = "empty" ->
                   /\ stack # << >>
                   /\ WellFormedFrom(doc, k + 1, stack)
              [] piece.kind = "chars" ->
                   /\ stack # << >>
                   /\ WellFormedFrom(doc, k + 1, stack)
              [] piece.kind = "raw" ->
                   /\ stack # << >>
                   /\ \A j \in DOMAIN piece.data : piece.data[j] \notin {"<", "&"}
                   /\ WellFormedFrom(doc, k + 1, stack)

WellFormed(doc) == doc # << >> /\ WellFormedFrom(doc, 1, << >>)

\* The elements of the given name in a document.
Elements(doc, name) ==
    { k \in DOMAIN doc : doc[k].kind \in {"open", "empty"} /\ doc[k].name = name }

\* The raw pieces that follow character data ending in "fill: ".
FillValues(doc) ==
    { <<doc[k].data, doc[k + 1].data>> :
        k \in { j \in 1 .. (Len(doc) - 1) :
                  /\ doc[j].kind = "chars" /\ doc[j + 1].kind = "raw"
                  /\ doc[j].data \in {"/* Style for the background and text */ .bg { fill: ",
                                      "; } .text { fill: "} } }

\* C16: for every text of length 0 to 2 over an alphabet with "<" and "&", and
\* every pair of colors, the SVG document is well-formed markup with exactly one
\* rect element and exactly one text element, and the background and the
\* foreground color are, verbatim, the fill of .bg and of .text.
C16_VectorShape ==
    probe.stage = "output" =>
        /\ WellFormed(probe.svg)
        /\ Cardinality(Elements(probe.svg, "rect")) = 1
        /\ Cardinality(Elements(probe.svg, "text")) = 1
        /\ FillValues(probe.svg) =
             { <<"/* Style for the background and text */ .bg { fill: ", <<probe.color>> >>,
               <<"; } .text { fill: ", <<probe.textColor>> >> }

\* The part of C16 that holds: the shape, for texts and colors without "<" and
\* "&".
C16_ShapeOfPlainText ==
    ( /\ probe.stage = "output"
      /\ \A j \in DOMAIN probe.text : probe.text[j] \notin {"<", "&"}
      /\ probe.color \notin {"<", "&"} /\ probe.textColor \notin {"<", "&"} ) =>
        /\ WellFormed(probe.svg)
        /\ Cardinality(Elements(probe.svg, "rect")) = 1
        /\ Cardinality(Elements(probe.svg, "text")) = 1

C16_IllFormed ==
    /\ probe.stage = "output" /\ probe.text = <<"<">>
    /\ probe.color = "#4F46E5" /\ probe.textColor = "#FFFFFF"
    /\ ~ WellFormed(probe.svg)

\* Lines 434-440: the output section is rendered when some field of faviconUrls
\* is set; inside it the error panel is rendered when error is set, else the
\* cards.
SectionShown ==
    \/ faviconUrls.icoUrl # NullUrl
    \/ faviconUrls.pngUrl # NullUrl
    \/ faviconUrls.svgUrl # NullUrl
    \/ faviconUrls.error \notin {Null, ""}

ErrorPanelShown == SectionShown /\ faviconUrls.error \notin {Null, ""}

\* The cards on the screen.
CardsShown == { b.field : b \in { d \in DownloadButtons : CardShown(d.field) } }

\* C17 as claimed: the output section shows nothing, or the error panel alone,
\* or the cards of all three artifacts.
C17_PanelExclusivity ==
    \/ ~ ErrorPanelShown /\ CardsShown = {}
    \/ ErrorPanelShown /\ CardsShown = {}
    \/ ~ ErrorPanelShown /\ CardsShown = {"icoUrl", "pngUrl", "svgUrl"}

\* C17 amended: the output section shows nothing, or the error panel alone, or
\* the cards of all three artifacts, or - after a failed fetch or blob read in
\* the catching copy of convertPNGToICO - the PNG and the SVG card without the
\* ICO card; it never shows the error panel together with a card.
C17_PanelExclusivityExceptIco ==
    \/ ~ ErrorPanelShown /\ CardsShown = {}
    \/ ErrorPanelShown /\ CardsShown = {}
    \/ ~ ErrorPanelShown /\ CardsShown = {"icoUrl", "pngUrl", "svgUrl"}
    \/ /\ ~ ErrorPanelShown /\ CardsShown = {"pngUrl", "svgUrl"}
       /\ build = "catching" /\ FetchFailed(lastReturn)
       /\ faviconUrls = lastReturn.result

C17_Witness ==
    /\ CardsShown = {"pngUrl", "svgUrl"} /\ ~ ErrorPanelShown
    /\ loading = FALSE /\ lastReturn.fetch = "fetchRejected"

\* C18: a call whose decode fired onerror returned (its promise resolved) the
\* record with the three handles null and with error the generic fallback
\* "An error occurred", since the rejection value, an Event, has no message; the
\* call created no object URL, and the step in which onerror fires creates none.
C18_DecodeFailure ==
    /\ []((Returned /\ lastReturn.decode = "onerror") =>
            /\ lastReturn.settled = "resolved"
            /\ AllNull(lastReturn.result)
            /\ DecodeEvent.message = Undefined
            /\ lastReturn.result.error = "An error occurred"
            /\ faviconUrls.error \in {Null, "An error occurred"}
            /\ CreatedBy(lastReturn.call) = {})
    /\ [][ \A i \in CallIds :
             (pc[i] = "decode" /\ lastReturn'.call = i /\ lastReturn'.decode = "onerror") =>
                 /\ objectUrls' = objectUrls
                 /\ faviconUrls' = lastReturn'.result
                 /\ loading' = FALSE ]_vars

C18_Witness ==
    /\ Returned /\ lastReturn.decode = "onerror" /\ lastReturn.call = 2
    /\ objectUrls # << >>
    /\ faviconUrls.error = "An error occurred"

\* Call i has created its PNG handle and has not returned.
HoldsPng(i) == InFlight(i) /\ call[i].pngUrl # NullUrl

\* C19 as claimed: a call that leaves the wait for the decode returns in the
\* same step, and while a call holds its PNG handle and has not returned, no
\* step but the call's own is taken.
C19_SingleSuspension ==
    [][ \A i \in CallIds :
          /\ (pc[i] = "decode" /\ pc'[i] # "decode") => pc'[i] = "done"
          /\ HoldsPng(i) => pc'[i] # pc[i] ]_vars

\* C19 amended: a call suspends up to three times, at the wait for the decode,
\* at the fetch of convertPNGToICO and at response.blob(), in that order; while
\* it holds its PNG handle and has not returned it is suspended at the fetch or
\* the blob read, and the events handled meanwhile are edits of the inputs and
\* color picker events: they leave faviconUrls, loading, the object URLs and the
\* call alone, and none is a generation or a download.
C19_ThreeSuspensions ==
    [][ \A i \in CallIds :
          /\ pc[i] # pc'[i] =>
                << pc[i], pc'[i] >> \in
                    { <<"idle", "decode">>, <<"idle", "done">>,
                      <<"decode", "fetch">>, <<"decode", "done">>,
                      <<"fetch", "blob">>, <<"fetch", "done">>,
                      <<"blob", "done">> }
          /\ HoldsPng(i) => pc[i] \in {"fetch", "blob"}
          /\ (HoldsPng(i) /\ pc'[i] = pc[i]) =>
                /\ events' = events + 1
                /\ effects' = << >>
                /\ generations' = generations
                /\ UNCHANGED << faviconUrls, loading, objectUrls, call, pc, lastReturn >>
      ]_vars

C19_Witness ==
    /\ pc[1] = "blob" /\ call[1].pngUrl # NullUrl
    /\ text # call[1].text
    /\ showColorPicker # Null

\* --------------------------------------------- dataURLToBlob on its own
\* Bytes per payload.
MaxBytes == 3

\* A sample of the bytes 0 .. 255 that makes the sextets 0, 62 and 63.
SampleBytes == { 0, 77, 251, 255 }
ByteSequences == UNION { [1 .. n -> SampleBytes] : n \in 0 .. MaxBytes }

\* Content types, as characters: image/png, image/svg+xml, and one with a
\* parameter, text/plain;charset=utf-8.
ImagePng == << "i", "m", "a", "g", "e", "/", "p", "n", "g" >>
ImageSvg == << "i", "m", "a", "g", "e", "/", "s", "v", "g", "+", "x", "m", "l" >>
TextPlainUtf8 ==
    << "t", "e", "x", "t", "/", "p", "l", "a", "i", "n", ";",
       "c", "h", "a", "r", "s", "e", "t", "=", "u", "t", "f", "-", "8" >>
ContentTypes == { ImagePng, ImageSvg, TextPlainUtf8 }

\* The base64 alphabet, sextet k at position k + 1.
B64 ==
    << "A", "B", "C", "D", "E", "F", "G", "H", "I", "J", "K", "L", "M",
       "N", "O", "P", "Q", "R", "S", "T", "U", "V", "W", "X", "Y", "Z",
       "a", "b", "c", "d", "e", "f", "g", "h", "i", "j", "k", "l", "m",
       "n", "o", "p", "q", "r", "s", "t", "u", "v", "w", "x", "y", "z",
       "0", "1", "2", "3", "4", "5", "6", "7", "8", "9", "+", "/" >>

Sextet(ch) == (CHOOSE k \in DOMAIN B64 : B64[k] = ch) - 1

\* base64 of a byte sequence, as canvas.toDataURL writes it: 3 bytes make 4
\* characters, a rest of 1 or 2 bytes is padded with "=".
RECURSIVE Base64(_)
Base64(b) ==
    CASE Len(b) = 0 -> << >>
      [] Len(b) = 1 ->
           << B64[(b[1] \div 4) + 1], B64[((b[1] % 4) * 16) + 1], "=", "=" >>
      [] Len(b) = 2 ->
           << B64[(b[1] \div 4) + 1], B64[((b[1] % 4) * 16) + (b[2] \div 16) + 1],
              B64[((b[2] % 16) * 4) + 1], "=" >>
      [] OTHER ->
           << B64[(b[1] \div 4) + 1], B64[((b[1] % 4) * 16) + (b[2] \div 16) + 1],
              B64[((b[2] % 16) * 4) + (b[3] \div 64) + 1], B64[(b[3] % 64) + 1] >>
           \o Base64(SubSeq(b, 4, Len(b)))

\* "data:" + t + ";base64," + base64(b)
DataUrl(t, b) ==
    << "d", "a", "t", "a", ":" >> \o t
    \o << ";", "b", "a", "s", "e", "6", "4", "," >> \o Base64(b)

\* String.prototype.split(sep), sep one character.
RECURSIVE Split(_, _)
Split(s, sep) ==
    IF \E k \in DOMAIN s : s[k] = sep
    THEN LET k == CHOOSE j \in DOMAIN s :
                      s[j] = sep /\ \A m \in 1 .. (j - 1) : s[m] # sep
         IN << SubSeq(s, 1, k - 1) >> \o Split(SubSeq(s, k + 1, Len(s)), sep)
    ELSE << s >>

\* array[k] of JavaScript (k counts from 0) is undefined beyond the length.
Has(array, k) == k < Len(array)
At(array, k) == array[k + 1]

\* The characters of String(undefined).
UndefinedText == << "u", "n", "d", "e", "f", "i", "n", "e", "d" >>

\* The bytes that the sextets of unpadded base64 text make; leftover bits are
\* dropped.
RECURSIVE DecodeSextets(_)
DecodeSextets(s) ==
    CASE Len(s) < 2 -> << >>
      [] Len(s) = 2 -> << (Sextet(s[1]) * 4) + (Sextet(s[2]) \div 16) >>
      [] Len(s) = 3 ->
           << (Sextet(s[1]) * 4) + (Sextet(s[2]) \div 16),
              ((Sextet(s[2]) % 16) * 16) + (Sextet(s[3]) \div 4) >>
      [] OTHER ->
           << (Sextet(s[1]) * 4) + (Sextet(s[2]) \div 16),
              ((Sextet(s[2]) % 16) * 16) + (Sextet(s[3]) \div 4),
              ((Sextet(s[3]) % 4) * 64) + Sextet(s[4]) >>
           \o DecodeSextets(SubSeq(s, 5, Len(s)))

\* window.atob(s): when the length is a multiple of 4, one or two "=" at the
\* end are removed; then a length of 1 modulo 4 or a character outside the
\* alphabet throws InvalidCharacterError; else the char codes of the result.
Unpadded(s) ==
    IF Len(s) % 4 = 0 /\ Len(s) > 0 /\ s[Len(s)] = "="
    THEN IF s[Len(s) - 1] = "="
         THEN SubSeq(s, 1, Len(s) - 2)
         ELSE SubSeq(s, 1, Len(s) - 1)
    ELSE s

atob(s) ==
    LET u == Unpadded(s)
    IN IF Len(u) % 4 = 1 \/ \E k \in DOMAIN u : \A j \in DOMAIN B64 : B64[j] # u[k]
       THEN [thrown |-> "InvalidCharacterError"]
       ELSE [thrown |-> Null, raw |-> DecodeSextets(u)]

\* Mutant of dataURLToBlob: the type is all of parts[0], "data:" included.
dataURLToBlobWholePrefix(dataURL) ==
    LET parts == Split(dataURL, ";")
        contentType == At(parts, 0)
    IN IF ~ Has(parts, 1)
       THEN [thrown |-> "TypeError"]
       ELSE LET fields == Split(At(parts, 1), ",")
                decoded == atob(IF Has(fields, 1) THEN At(fields, 1) ELSE UndefinedText)
            IN IF decoded.thrown # Null
               THEN [thrown |-> decoded.thrown]
               ELSE [thrown |-> Null, null |-> FALSE, type |-> contentType,
                     bytes |-> [k \in DOMAIN decoded.raw |-> decoded.raw[k] % 256]]

\* Lines 62-73 on the characters of a data URL: the Blob returned (never null),
\* or what is thrown: parts[1] undefined makes parts[1].split a TypeError, and
\* atob throws on text that is not base64.
dataURLToBlob(dataURL) ==
    LET parts == Split(dataURL, ";")
        contentType == At(Split(At(parts, 0), ":"), 1)
    IN IF ~ Has(parts, 1)
       THEN [thrown |-> "TypeError"]
       ELSE LET fields == Split(At(parts, 1), ",")
                decoded == atob(IF Has(fields, 1) THEN At(fields, 1) ELSE UndefinedText)
            IN IF decoded.thrown # Null
               THEN [thrown |-> decoded.thrown]
               ELSE [thrown |-> Null, null |-> FALSE, type |-> contentType,
                     bytes |-> [k \in DOMAIN decoded.raw |-> decoded.raw[k] % 256]]

DataUrlInit ==
    /\ Mounted
    /\ probe \in [stage : {"input"}, bytes : ByteSequences, type : ContentTypes]

\* Lines 62-73 applied to the data URL of the input.
DataUrlConvert ==
    /\ probe.stage = "input"
    /\ probe' = [stage |-> "output", bytes |-> probe.bytes, type |-> probe.type,
                 blob |-> dataURLToBlob(DataUrl(probe.type, probe.bytes))]
    /\ UNCHANGED componentVars

DataUrlSpec == DataUrlInit /\ [][DataUrlConvert]_vars

\* C20 as claimed: for every byte sequence b and content type t, dataURLToBlob
\* of "data:" + t + ";base64," + base64(b) returns a non-null Blob with the
\* bytes b, in order, and the type t.
C20_RoundTrip ==
    probe.stage = "output" =>
        /\ probe.blob.thrown = Null
        /\ probe.blob.null = FALSE
        /\ probe.blob.bytes = probe.bytes
        /\ probe.blob.type = probe.type

\* C20 amended: the same for every content type t without ";" (such as
\* image/png, the type of every data URL generateFavicons passes); for a type
\* with a parameter the function throws instead; it returns null for no input
\* at all.
C20_RoundTripOfBareTypes ==
    probe.stage = "output" =>
        /\ probe.blob.thrown = Null => probe.blob.null = FALSE
        /\ IF \E k \in DOMAIN probe.type : probe.type[k] = ";"
           THEN probe.blob.thrown # Null
           ELSE /\ probe.blob.thrown = Null
                /\ Len(probe.blob.bytes) = Len(probe.bytes)
                /\ \A k \in DOMAIN probe.bytes : probe.blob.bytes[k] = probe.bytes[k]
                /\ probe.blob.type = probe.type

C20_Witness ==
    /\ probe.stage = "output" /\ probe.type = ImagePng
    /\ probe.bytes = << 251, 255, 0 >>
    /\ probe.blob.thrown = Null /\ probe.blob.bytes = << 251, 255, 0 >>
    /\ probe.blob.type = ImagePng

\* C21: at most one generateFavicons call is in flight, loading is true exactly
\* while one is, and while loading is true faviconUrls is the cleared record;
\* a click on Generate is possible exactly when loading is false (and the run
\* has events left).
C21_LoadingGuard ==
    /\ Cardinality({ i \in CallIds : InFlight(i) }) <= 1
    /\ loading = (\E i \in CallIds : InFlight(i))
    /\ loading = TRUE => faviconUrls = Cleared
    /\ loading \in BOOLEAN
    /\ (ENABLED handleGenerateFavicon) = (loading = FALSE /\ events < MaxEvents)

C21_Witness ==
    /\ loading = TRUE /\ InFlight(2) /\ call[2].pngUrl # NullUrl
    /\ faviconUrls = Cleared
    /\ lastReturn.call = 1 /\ ThreeHandles(lastReturn.result)

\* C22: no handle that faviconUrls holds has been released, so none that a
\* card displays and offers for download has; and the handle a download has
\* just released is no longer in faviconUrls.
C22_NoUseAfterRelease ==
    /\ \A b \in DownloadButtons :
          faviconUrls[b.field] # NullUrl =>
              objectUrls[faviconUrls[b.field]].revoked = 0
    /\ \A k \in Releases :
          \A b \in DownloadButtons : faviconUrls[b.field] # effects[k].url

\* A state C22 excludes: a card and its Download button show a released handle.
C22_ReleasedHandleShown ==
    /\ CardShown("pngUrl")
    /\ objectUrls[faviconUrls.pngUrl].revoked = 1
    /\ Releases # {}

\* The inputs as the component holds them now.
CurrentInputs == [text |-> text, color |-> color, textColor |-> textColor]

\* The step edits an input: handleTextChange, handleColorChange,
\* handleTextColorChange or handleColorSelect changed text, color or textColor.
InputEdited == CurrentInputs' # CurrentInputs

\* C23: an invocation captures the inputs current at the click; an edit of the
\* inputs while it is in flight changes neither the call (its captured inputs,
\* its handles) nor the object URLs nor faviconUrls nor loading; the record it
\* returns reports the captured inputs, and every artifact of a stored result
\* is the one the captured inputs produce.
C23_InputSnapshot ==
    /\ [][ \A i \in CallIds :
             /\ (pc[i] = "idle" /\ pc'[i] = "decode") => Args(call'[i]) = CurrentInputs
             /\ (pc[i] = "idle" /\ pc'[i] = "done") =>
                    /\ lastReturn'.call = i
                    /\ Args(lastReturn') = CurrentInputs
             /\ (InFlight(i) /\ InputEdited) =>
                    UNCHANGED << call, pc, objectUrls, faviconUrls, loading, lastReturn >>
             /\ (InFlight(i) /\ InFlight(i)') => Args(call'[i]) = Args(call[i])
             /\ (InFlight(i) /\ pc'[i] = "done") =>
                    /\ lastReturn'.call = i
                    /\ Args(lastReturn') = Args(call[i])
                    /\ faviconUrls' = lastReturn'.result ]_vars
    /\ [](\A b \in DownloadButtons :
            faviconUrls[b.field] # NullUrl =>
                LET made == objectUrls[faviconUrls[b.field]]
                IN /\ faviconUrls = lastReturn.result
                   /\ made.owner = lastReturn.call
                   /\ made.args = Args(lastReturn)
                   /\ made.bytes =
                        CASE b.field = "pngUrl" -> PngBlob(lastReturn).bytes
                          [] b.field = "svgUrl" ->
                               SvgMarkup(lastReturn.text, lastReturn.color,
                                         lastReturn.textColor)
                          [] b.field = "icoUrl" -> IcoBlob(lastReturn).bytes)

C23_Witness ==
    /\ pc[1] = "fetch" /\ loading = TRUE /\ faviconUrls = Cleared
    /\ call[1].text # text /\ call[1].color # color /\ call[1].textColor # textColor
    /\ objectUrls[call[1].svgUrl].bytes
         = SvgMarkup(call[1].text, call[1].color, call[1].textColor)
    /\ objectUrls[call[1].svgUrl].bytes # SvgMarkup(text, color, textColor)

\* ---------------------------------------- the handlers called directly
\* The program with handleColorSelect also invoked while the picker is closed,
\* which no swatch of the rendered page does.
HandlerNext ==
    \/ Next
    \/ \E newColor \in Palette : ColorSelect(newColor)

HandlerSpec == Init /\ [][HandlerNext]_vars

\* C24: toggleColorPicker(t) opens the picker for t when it is closed or open
\* for the other target and closes it when it is open for t, and changes no
\* color; handleColorSelect(c) sets color alone when the picker is open for
\* "color", textColor alone when it is open for "textColor", and neither when
\* it is closed; after handleColorSelect the picker is closed; both leave text,
\* faviconUrls and loading unchanged.
C24_ColorPicker ==
    [][ /\ \A t \in {"color", "textColor"} :
             toggleColorPicker(t) =>
                 /\ showColorPicker \in {Null, "color", "textColor"} \ {t}
                        => showColorPicker' = t
                 /\ showColorPicker = t => showColorPicker' = Null
                 /\ UNCHANGED << color, textColor, text, faviconUrls, loading >>
        /\ \A c \in Palette :
             ColorSelect(c) =>
                 /\ showColorPicker = "color" => (color' = c /\ textColor' = textColor)
                 /\ showColorPicker = "textColor" => (textColor' = c /\ color' = color)
                 /\ showColorPicker = Null => (color' = color /\ textColor' = textColor)
                 /\ showColorPicker' = Null
                 /\ UNCHANGED << text, faviconUrls, loading >>
      ]_vars

\* The picker was opened for textColor and a swatch chosen while a generation
\* was in flight: textColor is the swatch, color is not, the picker is closed.
C24_Witness ==
    /\ showColorPicker = Null
    /\ color = "#4F46E5" /\ textColor = "#FFFFFF"
    /\ \E i \in CallIds : InFlight(i) /\ call[i].textColor # "#FFFFFF"
    /\ events = MaxEvents

====
